---------------------------- MODULE Spec2Model ----------------------------
(***************************************************************************)
(* Image-to-ASCII converter (src/main.py): preprocess_image, image_to_ascii,*)
(* save_output and main, modelled as a state machine.                      *)
(*                                                                         *)
(* The arithmetic of image_to_ascii is Python/NumPy double precision       *)
(* (IEEE-754 binary64, round to nearest, ties to even).  It is modelled    *)
(* bit for bit: a double is a sign, a 53-bit significand and an exponent,  *)
(* the significand being a natural number held in limbs.                   *)
(***************************************************************************)
EXTENDS Integers, Sequences, FiniteSets, TLC

-----------------------------------------------------------------------------
(* Natural numbers of any size: little-endian sequences of limbs, no       *)
(* leading zero limb, <<>> being 0.                                        *)

LimbBits == 15
Base == 2 ^ LimbBits

RECURSIVE BigNorm(_)
BigNorm(x) ==
    IF x = <<>> THEN <<>>
    ELSE IF x[Len(x)] = 0 THEN BigNorm(SubSeq(x, 1, Len(x) - 1))
    ELSE x

RECURSIVE BigFromNat(_)
BigFromNat(n) ==
    IF n = 0 THEN <<>> ELSE <<n % Base>> \o BigFromNat(n \div Base)

RECURSIVE BigToNat(_)
BigToNat(x) ==
    IF x = <<>> THEN 0 ELSE x[1] + Base * BigToNat(Tail(x))

Limb(x, i) == IF i <= Len(x) THEN x[i] ELSE 0

\* -1, 0 or 1 as x < y, x = y or x > y; i is the limb compared, from the top.
RECURSIVE BigCmpFrom(_, _, _)
BigCmpFrom(x, y, i) ==
    IF i = 0 THEN 0
    ELSE IF Limb(x, i) < Limb(y, i) THEN -1
    ELSE IF Limb(x, i) > Limb(y, i) THEN 1
    ELSE BigCmpFrom(x, y, i - 1)

BigCmp(x, y) ==
    BigCmpFrom(x, y, IF Len(x) > Len(y) THEN Len(x) ELSE Len(y))

RECURSIVE BigAddFrom(_, _, _, _)
BigAddFrom(x, y, i, carry) ==
    IF i > Len(x) /\ i > Len(y)
    THEN (IF carry = 0 THEN <<>> ELSE <<carry>>)
    ELSE LET s == Limb(x, i) + Limb(y, i) + carry
         IN  <<s % Base>> \o BigAddFrom(x, y, i + 1, s \div Base)

BigAdd(x, y) ==
    IF x = <<>> THEN y ELSE IF y = <<>> THEN x
    ELSE BigNorm(BigAddFrom(x, y, 1, 0))

\* x - y, for x >= y.
RECURSIVE BigSubFrom(_, _, _, _)
BigSubFrom(x, y, i, borrow) ==
    IF i > Len(x) THEN <<>>
    ELSE LET d == Limb(x, i) - Limb(y, i) - borrow
         IN  IF d < 0
             THEN <<d + Base>> \o BigSubFrom(x, y, i + 1, 1)
             ELSE <<d>> \o BigSubFrom(x, y, i + 1, 0)

BigSub(x, y) ==
    IF y = <<>> THEN x ELSE BigNorm(BigSubFrom(x, y, 1, 0))

\* x * k, for a limb-sized k.
RECURSIVE BigMulSmallFrom(_, _, _, _)
BigMulSmallFrom(x, k, i, carry) ==
    IF i > Len(x)
    THEN (IF carry = 0 THEN <<>> ELSE <<carry>>)
    ELSE LET p == x[i] * k + carry
         IN  <<p % Base>> \o BigMulSmallFrom(x, k, i + 1, p \div Base)

BigMulSmall(x, k) ==
    IF x = <<>> \/ k = 0 THEN <<>> ELSE BigMulSmallFrom(x, k, 1, 0)

ZeroLimbs(n) == [i \in 1..n |-> 0]

RECURSIVE BigMulFrom(_, _, _)
BigMulFrom(x, y, i) ==
    IF i > Len(y) THEN <<>>
    ELSE BigAdd(IF y[i] = 0 THEN <<>>
                ELSE ZeroLimbs(i - 1) \o BigMulSmall(x, y[i]),
                BigMulFrom(x, y, i + 1))

BigMul(x, y) ==
    IF x = <<>> \/ y = <<>> THEN <<>> ELSE BigMulFrom(x, y, 1)

\* x * 2^n and floor(x / 2^n).
BigShl(x, n) ==
    IF x = <<>> THEN <<>>
    ELSE ZeroLimbs(n \div LimbBits) \o BigMulSmall(x, 2 ^ (n % LimbBits))

RECURSIVE BigShrBits(_, _, _)
BigShrBits(x, r, i) ==
    IF i > Len(x) THEN <<>>
    ELSE <<(x[i] \div (2 ^ r)) + (Limb(x, i + 1) % (2 ^ r)) * (2 ^ (LimbBits - r))>>
         \o BigShrBits(x, r, i + 1)

BigShr(x, n) ==
    LET k == n \div LimbBits
    IN  IF k >= Len(x) THEN <<>>
        ELSE BigNorm(BigShrBits(SubSeq(x, k + 1, Len(x)), n % LimbBits, 1))

RECURSIVE NatBitLen(_)
NatBitLen(n) == IF n = 0 THEN 0 ELSE 1 + NatBitLen(n \div 2)

BigBitLen(x) ==
    IF x = <<>> THEN 0 ELSE (Len(x) - 1) * LimbBits + NatBitLen(x[Len(x)])

BigIsOdd(x) == x # <<>> /\ x[1] % 2 = 1

\* The digit d with d * y <= r < (d + 1) * y, for r < y * Base: the estimate
\* from the two top limbs of r and the top limb of y (a full limb) is at most
\* two too large (Knuth, TAOCP 4.3.1 D) and is stepped down.
RECURSIVE DigitDown(_, _, _, _)
DigitDown(r, y, d, p) ==
    IF BigCmp(p, r) <= 0 THEN [d |-> d, r |-> BigSub(r, p)]
    ELSE DigitDown(r, y, d - 1, BigSub(p, y))

Digit(r, y) ==
    LET n   == Len(y)
        est == (Limb(r, n + 1) * Base + Limb(r, n)) \div y[n]
        d   == IF est >= Base THEN Base - 1 ELSE est
    IN  DigitDown(r, y, d, BigMulSmall(y, d))

\* One step of the long division of x by y: limb i of x is brought down to
\* the remainder and the next quotient digit is taken.
DivLimb(x, y, i, st) ==
    LET dr == Digit(BigNorm(<<x[i]>> \o st.r), y)
    IN  [q |-> BigNorm(<<dr.d>> \o st.q), r |-> dr.r]

\* floor(x / y) and x mod y by long division, from limb i of x down, the top
\* limb of y being full; st holds the quotient and the remainder of the limbs
\* above i (a remainder, so never longer than y).
RECURSIVE BigDivModFrom(_, _, _, _)
BigDivModFrom(x, y, i, st) ==
    IF i = 0 \/ Len(st.r) > Len(y) THEN st
    ELSE BigDivModFrom(x, y, i - 1, DivLimb(x, y, i, st))

\* floor(x / y) and whether x mod y # 0 (r is x mod y times the shift), for
\* y # 0: both are shifted to fill the top limb of y, which leaves the
\* quotient as it is.
BigDivMod(x, y) ==
    LET sh == LimbBits - NatBitLen(y[Len(y)])
        xs == BigShl(x, sh)
        ys == BigShl(y, sh)
    IN  IF Len(xs) < Len(ys) THEN [q |-> <<>>, r |-> xs]
        ELSE BigDivModFrom(xs, ys, Len(xs), [q |-> <<>>, r |-> <<>>])

-----------------------------------------------------------------------------
(* IEEE-754 binary64 values s * m * 2^e: s the sign, m = 0 or a 53-bit     *)
(* significand.  The values met here are far from the subnormal and the    *)
(* overflow range, so the exponent is unbounded.                           *)

Precision == 53

FZero == [s |-> 1, m |-> <<>>, e |-> 0]

\* The double nearest to s * M * 2^e, ties to even.
FRound(s, M, e) ==
    LET n == BigBitLen(M)
    IN  IF n = 0 THEN FZero
        ELSE IF n <= Precision
        THEN [s |-> s, m |-> BigShl(M, Precision - n), e |-> e - (Precision - n)]
        ELSE LET sh   == n - Precision
                 q    == BigShr(M, sh)
                 rest == BigSub(M, BigShl(q, sh))
                 c    == BigCmp(rest, BigShl(<<1>>, sh - 1))
                 up   == c > 0 \/ (c = 0 /\ BigIsOdd(q))
                 q1   == IF up THEN BigAdd(q, <<1>>) ELSE q
             IN  IF BigBitLen(q1) > Precision
                 THEN [s |-> s, m |-> BigShr(q1, 1), e |-> e + sh + 1]
                 ELSE [s |-> s, m |-> q1, e |-> e + sh]

\* float(n) of a Python int (exact below 2^53).
FFromInt(n) ==
    IF n < 0 THEN FRound(-1, BigFromNat(-n), 0) ELSE FRound(1, BigFromNat(n), 0)

\* x * y: the exact product, rounded once.
FMul(x, y) ==
    IF x.m = <<>> \/ y.m = <<>> THEN FZero
    ELSE FRound(x.s * y.s, BigMul(x.m, y.m), x.e + y.e)

\* x / y: the quotient to 58 or 59 bits and a sticky bit for the remainder,
\* rounded once.  (No divisor is 0 here: they are img_width >= 1 and
\* brightness_step > 0.)
GuardBits == 6

FDiv(x, y) ==
    IF y.m = <<>> \/ x.m = <<>> THEN FZero
    ELSE LET k  == Precision + GuardBits
             dm == BigDivMod(BigShl(x.m, k), y.m)
             sticky == IF dm.r = <<>> THEN 0 ELSE 1
         IN  FRound(x.s * y.s,
                    BigAdd(BigMulSmall(dm.q, 2), BigFromNat(sticky)),
                    x.e - y.e - k - 1)

\* int(x), x.astype(int): truncation toward zero.
FTrunc(x) ==
    IF x.m = <<>> THEN 0
    ELSE IF x.e >= 0 THEN x.s * BigToNat(BigShl(x.m, x.e))
    ELSE x.s * BigToNat(BigShr(x.m, -x.e))

\* x >= n for an integer n >= 0 and a double x >= 0.
FGeqNat(x, n) ==
    IF x.m = <<>> THEN n = 0
    ELSE IF x.e >= 0 THEN BigCmp(BigShl(x.m, x.e), BigFromNat(n)) >= 0
    ELSE BigCmp(x.m, BigShl(BigFromNat(n), -x.e)) >= 0

\* round(x) of Python: the nearest integer, ties to even.
FRoundInt(x) ==
    IF x.m = <<>> THEN 0
    ELSE IF x.e >= 0 THEN x.s * BigToNat(BigShl(x.m, x.e))
    ELSE LET q    == BigShr(x.m, -x.e)
             rest == BigSub(x.m, BigShl(q, -x.e))
             c    == BigCmp(BigMulSmall(rest, 2), BigShl(<<1>>, -x.e))
             up   == c > 0 \/ (c = 0 /\ BigIsOdd(q))
         IN  x.s * (BigToNat(q) + (IF up THEN 1 ELSE 0))

-----------------------------------------------------------------------------
(* The program's constants and pure functions.                             *)

None == [none |-> TRUE]

Max(a, b) == IF a >= b THEN a ELSE b

\* ASCII_CHARS (line 40), one character per element.
ASCII_CHARS ==
    <<"#", "#", "@", "@", "M", "M", "B", "B", "8", "8", "N", "N", "H", "H",
      "O", "O", "G", "G", "P", "P", "E", "E", "X", "X", "F", "F", "V", "V",
      "Y", "Y", "2", "2", "Z", "Z", "C", "C", "7", "7", "L", "L", "j", "j",
      "l", "l", "1", "1", "r", "r", "i", "i", ";", ";", ";", ":", ":", ":",
      ".", ".", ".", ".", " ", " ">>

\* The largest sample of an 8-bit image.
MaxBrightness == 255

Brightness == 0..MaxBrightness

\* Pillow's 8-bit blend of in1 and in2 under a mask (paste with mask=alpha):
\* (in1 * (255 - mask) + in2 * mask) / 255, rounded.
Blend8(mask, in1, in2) ==
    LET t == in1 * (MaxBrightness - mask) + in2 * mask + 128
    IN  ((t \div 256) + t) \div 256

\* Pillow's convert('L') of an RGB colour: ITU-R 601-2 luma in 16-bit fixed
\* point, L = (19595 R + 38470 G + 7471 B + 0x8000) >> 16.
Rgb2L(r, g, b) == (r * 19595 + g * 38470 + b * 7471 + 32768) \div 65536

\* The background of line 79 in another colour (black).
BackgroundBlack == [r |-> 0, g |-> 0, b |-> 0, a |-> MaxBrightness]

\* Image.new("RGBA", img.size, (255, 255, 255, 255)) (line 79), one pixel.
Background ==
    [r |-> MaxBrightness, g |-> MaxBrightness, b |-> MaxBrightness,
     a |-> MaxBrightness]

Modes == {"L", "RGB", "RGBA", "LA", "P"}

\* The condition of line 77; transparency is 'transparency' in img.info.
HasTransparency(mode, transparency) ==
    mode \in {"RGBA", "LA"} \/ (mode = "P" /\ transparency)

\* bg.paste(img, mask=alpha) (lines 78-81), one pixel.  A pixel p is held as
\* img.convert('RGBA') gives it: an L or LA sample in r = g = b, a palette
\* entry looked up, a = 255 where the mode has no alpha.
Paste(p) ==
    [r |-> Blend8(p.a, Background.r, p.r),
     g |-> Blend8(p.a, Background.g, p.g),
     b |-> Blend8(p.a, Background.b, p.b),
     a |-> Blend8(p.a, Background.a, p.a)]

\* Lines 77-83 for one pixel: the brightness preprocess_image gives it.
GrayPixel(mode, transparency, p) ==
    IF HasTransparency(mode, transparency)
    THEN LET q == Paste(p) IN Rgb2L(q.r, q.g, q.b)
    ELSE IF mode = "L" THEN p.r
    ELSE Rgb2L(p.r, p.g, p.b)

\* 0.5 (line 100).
FHalf == FDiv(FFromInt(1), FFromInt(2))

\* aspect_ratio = img_height / img_width (line 99).
aspect_ratio(img_width, img_height) ==
    FDiv(FFromInt(img_height), FFromInt(img_width))

\* width * aspect_ratio * 0.5 (line 100), evaluated left to right.
ScaledHeight(W, img_width, img_height) ==
    FMul(FMul(FFromInt(W), aspect_ratio(img_width, img_height)), FHalf)

\* Line 100 with round() in the place of int().
HeightRounded(W, img_width, img_height) ==
    Max(1, FRoundInt(ScaledHeight(W, img_width, img_height)))

\* height = max(1, int(width * aspect_ratio * 0.5)) (line 100).
Height(W, img_width, img_height) ==
    Max(1, FTrunc(ScaledHeight(W, img_width, img_height)))

\* brightness_step = 255 / (len(ASCII_CHARS) - 1) (line 109).
brightness_step ==
    FDiv(FFromInt(MaxBrightness), FFromInt(Len(ASCII_CHARS) - 1))

\* Line 110 with the ramp read from its light end.
IndexInverted(b) ==
    (Len(ASCII_CHARS) - 1) - FTrunc(FDiv(FFromInt(b), brightness_step))

\* Line 110 with the index kept in five bits.
IndexWrapped(b) == FTrunc(FDiv(FFromInt(b), brightness_step)) % 32

\* Line 110 with the sample multiplied by the step.
IndexScaled(b) == FTrunc(FMul(FFromInt(b), brightness_step))

\* (pixels / brightness_step).astype(int) (line 110), one sample.
BrightnessIndex(b) == FTrunc(FDiv(FFromInt(b), brightness_step))

\* indices for every sample an 8-bit image can hold.
indices == [b \in Brightness |-> BrightnessIndex(b)]

\* ASCII_CHARS[i] of Python for i in range; a negative i counts from the end.
CharAt(i) == IF i < 0 THEN ASCII_CHARS[Len(ASCII_CHARS) + i + 1] ELSE ASCII_CHARS[i + 1]

IndexInRange(i) == i < Len(ASCII_CHARS) /\ i >= -Len(ASCII_CHARS)

\* "\n".join(ascii_rows) (line 114) and a trailing newline after it.
JoinWithTrailingNewline(ascii_rows, W) ==
    [k \in 1..(Len(ascii_rows) * (W + 1)) |->
        IF k % (W + 1) = 0 THEN "\n"
        ELSE ascii_rows[((k - 1) \div (W + 1)) + 1][((k - 1) % (W + 1)) + 1]]

\* "\n".join(ascii_rows) (line 114) for the rows of an array W wide: the
\* characters of the rows in order, one "\n" between two rows.
JoinRows(ascii_rows, W) ==
    [k \in 1..(Len(ascii_rows) * (W + 1) - 1) |->
        IF k % (W + 1) = 0 THEN "\n"
        ELSE ascii_rows[((k - 1) \div (W + 1)) + 1][((k - 1) % (W + 1)) + 1]]

-----------------------------------------------------------------------------
(* img.resize((width, height)) (line 103) is Pillow's.  What the model     *)
(* keeps of it: it raises ValueError("height and width must be > 0") for a *)
(* size below 1; it returns a copy when the size is the image's own; else  *)
(* it resamples along x (when the width changes) and then along y (when    *)
(* the height changes), each output sample being a weighted mean, clipped  *)
(* to 0..255, of samples of its own row (column) with weights that sum to  *)
(* one: a row (column) of one value v gives v, any other may give any      *)
(* value.  This holds of every filter of Pillow, the default included.     *)

\* A resize that accepts a width of 0.
ResizeRaisesBelowZero(W, H) == W < 0 \/ H < 1

ResizeRaises(W, H) == W < 1 \/ H < 1

\* The values a resampled sample is drawn from.
Levels == {0, MaxBrightness}

Uniform(line) == \A i \in DOMAIN line : line[i] = line[1]

LineOutcomes(line, n) ==
    IF Uniform(line) THEN {[i \in 1..n |-> line[1]]} ELSE [1..n -> Levels]

Column(px, x) == [y \in 1..Len(px) |-> px[y][x]]

\* The pass along x: h rows of w samples to h rows of W samples.
HorizontalOutcomes(px, W) ==
    IF \A y \in 1..Len(px) : Uniform(px[y])
    THEN {[y \in 1..Len(px) |-> [x \in 1..W |-> px[y][1]]]}
    ELSE {q \in [1..Len(px) -> [1..W -> Levels]] :
            \A y \in 1..Len(px) : q[y] \in LineOutcomes(px[y], W)}

\* The pass along y: h rows of W samples to H rows of W samples.
VerticalOutcomes(px, W, H) ==
    IF \A x \in 1..W : Uniform(Column(px, x))
    THEN {[y \in 1..H |-> [x \in 1..W |-> px[1][x]]]}
    ELSE {q \in [1..H -> [1..W -> Levels]] :
            \A x \in 1..W : Column(q, x) \in LineOutcomes(Column(px, x), H)}

\* The images img.resize((W, H)) may return, for W, H >= 1.
ResizeOutcomes(im, W, H) ==
    IF W = im.w /\ H = im.h THEN {im.px}
    ELSE UNION { IF H = im.h THEN {mid} ELSE VerticalOutcomes(mid, W, H) :
                 mid \in (IF W = im.w THEN {im.px}
                          ELSE HorizontalOutcomes(im.px, W)) }

-----------------------------------------------------------------------------
(* Bounds of the model.                                                    *)

\* Source images of the pipeline are at most MaxSrcW x MaxSrcH.
MaxSrcW == 2
MaxSrcH == 2
\* --width of the pipeline is at most MaxWidth (and at least -1).
MaxWidth == 2
\* The sizes the height computation is checked on.
MaxWideW == 11
MaxWideH == 30
MaxWideWidth == 11

-----------------------------------------------------------------------------
(* The run of main() (lines 130-144).                                      *)

VARIABLES
    pc,         \* where the run is
    width,      \* args.width (line 134)
    img,        \* the image Image.open returned (lines 58, 61, 64), or None
    image,      \* what preprocess_image returned (line 139): a grayscale
                \* image or None
    ascii_art,  \* what image_to_ascii returned (line 142), as [text |-> it],
                \* or None
    stdout,     \* what has been printed, in order
    outfile,    \* the output file, as [text |-> its content], or None while
                \* unwritten
    made_dirs,  \* os.makedirs created the output directory (line 122)
    fetches,    \* calls of requests.get (line 55)
    saves,      \* calls of save_output (line 144)
    writes,     \* calls of open(filepath, 'w') (line 124)
    raised,     \* the exception that left main, if one did
    arg,        \* the input of a function checked on its own
    result      \* its value

vars == <<pc, width, img, image, ascii_art, stdout, outfile, made_dirs,
          fetches, saves, writes, raised, arg, result>>

NoRaise == [exc |-> "none", from |-> "none"]

\* What image_source may be (lines 53, 60, 63).
Sources == {"url", "path", "data"}

RequestExceptions == {"ConnectionError", "HTTPError"}

\* What lines 55-64 may raise for a source: requests.get a ConnectionError,
\* raise_for_status an HTTPError, Image.open a FileNotFoundError for a
\* name that names no file and an UnidentifiedImageError for data that is
\* no image.
OpenErrors(source) ==
    IF source = "url" THEN RequestExceptions \cup {"UnidentifiedImageError"}
    ELSE {"FileNotFoundError", "UnidentifiedImageError"}

\* Except clauses that let the exceptions of requests pass.
HandlerWithoutRequests(e) ==
    IF e = "FileNotFoundError" THEN "not_found"
    ELSE IF e \in RequestExceptions THEN "uncaught"
    ELSE "error"

\* The except clause of lines 66-74 an exception lands in, named by what
\* it prints.
Handler(e) ==
    IF e \in RequestExceptions THEN "fetch_error"
    ELSE IF e = "FileNotFoundError" THEN "not_found"
    ELSE "error"

Opaque(l) == [r |-> l, g |-> l, b |-> l, a |-> MaxBrightness]

\* The pixels of the pictures of the pipeline: black and white where the
\* picture has no alpha, opaque black and transparent black where it has.
PipelinePixels(mode, transparency) ==
    IF HasTransparency(mode, transparency)
    THEN {Opaque(0), [r |-> 0, g |-> 0, b |-> 0, a |-> 0]}
    ELSE {Opaque(0), Opaque(MaxBrightness)}

\* Modes with 'transparency' in img.info or not; RGBA and LA hold their
\* alpha in a band.
Variants ==
    {v \in Modes \X BOOLEAN : v[1] \in {"RGBA", "LA"} => ~v[2]}

\* The pictures a source may hold.
Pictures ==
    UNION { UNION { { [w |-> w, h |-> h, mode |-> v[1], transparency |-> v[2],
                       px |-> px] :
                      px \in [1..h -> [1..w -> PipelinePixels(v[1], v[2])]] } :
                    v \in Variants } :
            w \in 1..MaxSrcW, h \in 1..MaxSrcH }

\* Lines 77-83 on a whole picture.
Gray(im) ==
    [w |-> im.w, h |-> im.h,
     px |-> [y \in 1..im.h |-> [x \in 1..im.w |->
                GrayPixel(im.mode, im.transparency, im.px[y][x])]]]

Init ==
    /\ pc = "start"
    /\ width \in (0 - 1)..MaxWidth
    /\ img = None
    /\ image = None
    /\ ascii_art = None
    /\ stdout = <<>>
    /\ outfile = None
    /\ made_dirs = FALSE
    /\ fetches = 0
    /\ saves = 0
    /\ writes = 0
    /\ raised = NoRaise
    /\ arg = None
    /\ result = None

\* preprocess_image, lines 52-74: the source is read and opened; what it
\* raises is printed by its except clause and None is returned.
OpenImage ==
    /\ pc = "start"
    /\ \E source \in Sources :
        /\ fetches' = IF source = "url" THEN fetches + 1 ELSE fetches
        /\ \/ \E picture \in Pictures :
                /\ img' = picture
                /\ pc' = "opened"
                /\ UNCHANGED <<stdout, raised>>
           \/ \E e \in OpenErrors(source) :
                /\ img' = None
                /\ IF Handler(e) = "uncaught"
                   THEN /\ raised' = [exc |-> e, from |-> "preprocess_image"]
                        /\ pc' = "raised"
                        /\ UNCHANGED stdout
                   ELSE /\ stdout' = Append(stdout, [kind |-> Handler(e), text |-> e])
                        /\ pc' = "preprocessed"
                        /\ UNCHANGED raised
    /\ UNCHANGED <<width, image, ascii_art, outfile, made_dirs, saves, writes,
                   arg, result>>

\* preprocess_image, lines 76-83, which no try block covers.  Image.open
\* reads the header only; the pixels are decoded by the first convert(),
\* which raises OSError for a file whose data is cut short or corrupt.
Normalize ==
    /\ pc = "opened"
    /\ \E decoded \in BOOLEAN :
        IF decoded
        THEN /\ image' = Gray(img)
             /\ pc' = "preprocessed"
             /\ UNCHANGED raised
        ELSE /\ raised' = [exc |-> "OSError", from |-> "preprocess_image"]
             /\ pc' = "raised"
             /\ UNCHANGED image
    /\ img' = None
    /\ UNCHANGED <<width, ascii_art, stdout, outfile, made_dirs, fetches, saves,
                   writes, arg, result>>

\* main, line 141, for a false image.
SkipConversion ==
    /\ pc = "preprocessed"
    /\ image = None
    /\ pc' = "done"
    /\ UNCHANGED <<width, img, image, ascii_art, stdout, outfile, made_dirs,
                   fetches, saves, writes, raised, arg, result>>

ascii_rows(pixels) ==
    [y \in 1..Len(pixels) |-> [x \in 1..Len(pixels[y]) |->
        CharAt(indices[pixels[y][x]])]]

\* image_to_ascii, lines 96-114, called at line 142.
ImageToAscii ==
    /\ pc = "preprocessed"
    /\ image # None
    /\ LET height == Height(width, image.w, image.h)
       IN  IF ResizeRaises(width, height)
           THEN /\ raised' = [exc |-> "ValueError", from |-> "image_to_ascii"]
                /\ pc' = "raised"
                /\ UNCHANGED ascii_art
           ELSE \E pixels \in ResizeOutcomes(image, width, height) :
                    IF \A y \in 1..Len(pixels) : \A x \in 1..Len(pixels[y]) :
                            IndexInRange(indices[pixels[y][x]])
                    THEN /\ ascii_art' = [text |-> JoinRows(ascii_rows(pixels), width)]
                         /\ pc' = "converted"
                         /\ UNCHANGED raised
                    ELSE /\ raised' = [exc |-> "IndexError",
                                       from |-> "image_to_ascii"]
                         /\ pc' = "raised"
                         /\ UNCHANGED ascii_art
    /\ UNCHANGED <<width, img, image, stdout, outfile, made_dirs, fetches,
                   saves, writes, arg, result>>

\* main, line 143.
PrintArt ==
    /\ pc = "converted"
    /\ stdout' = Append(stdout, [kind |-> "art", text |-> ascii_art.text])
    /\ pc' = "printed"
    /\ UNCHANGED <<width, img, image, ascii_art, outfile, made_dirs, fetches,
                   saves, writes, raised, arg, result>>

\* The paths --output may name: one with a directory part (the default,
\* line 135) and one without.
OutputPaths == {"output/art.txt", "art.txt"}

dirname(filepath) == IF filepath = "output/art.txt" THEN "output" ELSE ""

\* What os.makedirs (line 122) and what open and write (lines 124-125)
\* raise when they fail.
MakedirsError == "PermissionError"
WriteError == "OSError"

\* An except clause that catches PermissionError only.
SaveHandlesPermission(e) == e = "PermissionError"

\* except Exception (line 127).
SaveHandles(e) == e \in {MakedirsError, WriteError}

\* Lines 127-128 for an exception e of lines 120-126.
SaveFailed(e) ==
    IF SaveHandles(e)
    THEN /\ stdout' = Append(stdout, [kind |-> "save_error", text |-> e])
         /\ pc' = "done"
         /\ UNCHANGED raised
    ELSE /\ raised' = [exc |-> e, from |-> "save_output"]
         /\ pc' = "raised"
         /\ UNCHANGED stdout

\* save_output, lines 116-128, called at line 144.
SaveOutput ==
    /\ pc = "printed"
    /\ saves' = saves + 1
    /\ \E filepath \in OutputPaths :
        \/ /\ dirname(filepath) # ""
           /\ SaveFailed(MakedirsError)
           /\ UNCHANGED <<made_dirs, writes, outfile>>
        \/ /\ made_dirs' = (dirname(filepath) # "")
           /\ writes' = writes + 1
           /\ \/ /\ outfile' = ascii_art
                 /\ stdout' = Append(stdout, [kind |-> "saved", text |-> filepath])
                 /\ pc' = "done"
                 /\ UNCHANGED raised
              \/ /\ SaveFailed(WriteError)
                 /\ UNCHANGED outfile
    /\ UNCHANGED <<width, img, image, ascii_art, fetches, arg, result>>

Next ==
    \/ OpenImage
    \/ Normalize
    \/ SkipConversion
    \/ ImageToAscii
    \/ PrintArt
    \/ SaveOutput

Spec == Init /\ [][Next]_vars

-----------------------------------------------------------------------------
(* image_to_ascii on images as large as MaxWideW x MaxWideH, of one        *)
(* brightness: what lines 99-100 compute is exercised over a range in      *)
(* which the double-precision product and the exact product part.          *)

UniformImage(w, h, b) ==
    [w |-> w, h |-> h, px |-> [y \in 1..h |-> [x \in 1..w |-> b]]]

InitWide ==
    /\ pc = "preprocessed"
    /\ width \in 1..MaxWideWidth
    /\ img = None
    /\ \E w \in 1..MaxWideW, h \in 1..MaxWideH : image = UniformImage(w, h, 0)
    /\ ascii_art = None
    /\ stdout = <<>>
    /\ outfile = None
    /\ made_dirs = FALSE
    /\ fetches = 0
    /\ saves = 0
    /\ writes = 0
    /\ raised = NoRaise
    /\ arg = None
    /\ result = None

NextWide == ImageToAscii

SpecWide == InitWide /\ [][NextWide]_vars

-----------------------------------------------------------------------------
(* Line 110 on its own: the indices of two samples.                        *)

InitIndex ==
    /\ pc = "index"
    /\ width = 0
    /\ img = None
    /\ image = None
    /\ ascii_art = None
    /\ stdout = <<>>
    /\ outfile = None
    /\ made_dirs = FALSE
    /\ fetches = 0
    /\ saves = 0
    /\ writes = 0
    /\ raised = NoRaise
    /\ \E b1 \in Brightness, b2 \in Brightness :
          b1 <= b2 /\ arg = [b1 |-> b1, b2 |-> b2]
    /\ result = None

ApplyIndex ==
    /\ pc = "index"
    /\ result' = [i1 |-> indices[arg.b1], i2 |-> indices[arg.b2]]
    /\ pc' = "indexed"
    /\ UNCHANGED <<width, img, image, ascii_art, stdout, outfile, made_dirs,
                   fetches, saves, writes, raised, arg>>

NextIndex == ApplyIndex

SpecIndex == InitIndex /\ [][NextIndex]_vars

-----------------------------------------------------------------------------
(* Lines 77-83 on one pixel, over every alpha.                             *)

ChannelLevels == {0, 100, 200, MaxBrightness}

\* The pixels a picture of a mode may hold, as convert('RGBA') gives them.
PixelsOf(mode, transparency) ==
    {p \in [r : ChannelLevels, g : ChannelLevels, b : ChannelLevels,
            a : Brightness] :
        /\ mode \in {"L", "LA"} => p.r = p.g /\ p.g = p.b
        /\ ~HasTransparency(mode, transparency) => p.a = MaxBrightness}

InitPixel ==
    /\ pc = "pixel"
    /\ width = 0
    /\ img = None
    /\ image = None
    /\ ascii_art = None
    /\ stdout = <<>>
    /\ outfile = None
    /\ made_dirs = FALSE
    /\ fetches = 0
    /\ saves = 0
    /\ writes = 0
    /\ raised = NoRaise
    /\ \E v \in Variants : \E p \in PixelsOf(v[1], v[2]) :
          arg = [mode |-> v[1], transparency |-> v[2], p |-> p]
    /\ result = None

ApplyGrayPixel ==
    /\ pc = "pixel"
    /\ result' = [l |-> GrayPixel(arg.mode, arg.transparency, arg.p)]
    /\ pc' = "normalized"
    /\ UNCHANGED <<width, img, image, ascii_art, stdout, outfile, made_dirs,
                   fetches, saves, writes, raised, arg>>

NextPixel == ApplyGrayPixel

SpecPixel == InitPixel /\ [][NextPixel]_vars

-----------------------------------------------------------------------------
(* The properties checked.                                                 *)

Newlines(t) == {k \in 1..Len(t) : t[k] = "\n"}

\* The rows of a text are what its newlines separate.
Rows(t) == Cardinality(Newlines(t)) + 1

Cuts(t) == {0, Len(t) + 1} \cup Newlines(t)

\* The lengths of the rows of a text.
RowLengths(t) ==
    {c[2] - c[1] - 1 :
        c \in {d \in Cuts(t) \X Cuts(t) :
                 /\ d[1] < d[2]
                 /\ \A k \in Cuts(t) : ~(d[1] < k /\ k < d[2])}}

\* The characters of a text that are not newlines.
TextChars(t) == {t[k] : k \in (1..Len(t)) \ Newlines(t)}

Printed(kind) == \E i \in 1..Len(stdout) : stdout[i].kind = kind

OnlyBrightness(b) ==
    \A y \in 1..image.h : \A x \in 1..image.w : image.px[y][x] = b

Striped == [w |-> 2, h |-> 2, px |-> <<<<0, MaxBrightness>>, <<0, MaxBrightness>>>>]

\* C1, as the code has it: for a width W >= 1 and an image w x h, the text
\* image_to_ascii returns has r >= 1 rows, where r is 1 when the double
\* W * (h / w) * 0.5 is below 2 and is otherwise that double truncated to an
\* integer: r <= W * (h / w) * 0.5 < r + 1.
C1_RowsTruncated ==
    pc = "converted" =>
        LET d == ScaledHeight(width, image.w, image.h)
            r == Rows(ascii_art.text)
        IN  /\ r >= 1
            /\ ~FGeqNat(d, r + 1)
            /\ r > 1 => FGeqNat(d, r)

\* An image 11 x 30 at width 11: the exact product is 15, the double
\* product is just below it, and the text has 14 rows.
C1_Witness ==
    /\ pc = "converted"
    /\ width = 11 /\ image.w = 11 /\ image.h = 30
    /\ Rows(ascii_art.text) = 14

\* C1 as stated: the text has max(1, round(W * (h / w) * 0.5)) rows.
C1_RowsRounded ==
    pc = "converted" =>
        Rows(ascii_art.text) = HeightRounded(width, image.w, image.h)

\* C2: the text image_to_ascii returns has at least one row, every row has
\* exactly W characters, and the rows are separated by single newlines with
\* no blank line before the first or after the last.
C2_Layout ==
    ascii_art # None =>
        /\ width >= 1
        /\ Rows(ascii_art.text) >= 1
        /\ RowLengths(ascii_art.text) = {width}

C2_Witness ==
    /\ pc = "converted"
    /\ width = 2
    /\ Rows(ascii_art.text) = 2
    /\ Cardinality(TextChars(ascii_art.text)) = 2

\* C3: for every brightness in 0..255 the index of line 110 lies in
\* 0..L-1, L the length of ASCII_CHARS, so the character it selects is one
\* of ASCII_CHARS and the index never reaches L.
C3_IndexInRange ==
    pc = "indexed" =>
        /\ result.i1 \in 0..(Len(ASCII_CHARS) - 1)
        /\ result.i2 \in 0..(Len(ASCII_CHARS) - 1)
        /\ \E k \in 1..Len(ASCII_CHARS) : CharAt(result.i2) = ASCII_CHARS[k]

C3_Witness ==
    /\ pc = "indexed"
    /\ arg.b1 = 0 /\ arg.b2 = MaxBrightness
    /\ result.i1 = 0
    /\ result.i2 >= Len(ASCII_CHARS) - 2

\* C4: an image of brightness 0 only gives a text of ASCII_CHARS[0] only,
\* an image of brightness 255 only gives a text of the last character of
\* ASCII_CHARS only, the image 2 x 2 with rows [0, 255] and [0, 255] at
\* width 2 gives the one row ASCII_CHARS[0] + ASCII_CHARS[-1], and no
\* sample raises IndexError.
C4_Extremes ==
    /\ raised.exc # "IndexError"
    /\ pc = "converted" =>
        /\ OnlyBrightness(0) => TextChars(ascii_art.text) = {ASCII_CHARS[1]}
        /\ OnlyBrightness(MaxBrightness) =>
              TextChars(ascii_art.text) = {ASCII_CHARS[Len(ASCII_CHARS)]}
        /\ image = Striped /\ width = 2 =>
              ascii_art.text = <<ASCII_CHARS[1], ASCII_CHARS[Len(ASCII_CHARS)]>>

C4_Witness ==
    /\ pc = "converted"
    /\ image = Striped
    /\ width = 2
    /\ Len(ascii_art.text) = 2

\* C5: the index of line 110 is monotone: b1 < b2 gives
\* index(b1) <= index(b2).
C5_Monotone ==
    pc = "indexed" /\ arg.b1 < arg.b2 =>
        result.i1 <= result.i2

C5_Witness ==
    /\ pc = "indexed"
    /\ arg.b1 + 1 = arg.b2
    /\ result.i1 < result.i2

\* C6: for a width of 0 or less no art is returned, printed or written,
\* and the conversion of an image ends in the ValueError that
\* image_to_ascii raises.
C6_InvalidWidth ==
    width < 1 =>
        /\ ascii_art = None
        /\ outfile = None
        /\ ~Printed("art")
        /\ image # None /\ pc # "preprocessed" =>
              /\ pc = "raised"
              /\ raised = [exc |-> "ValueError", from |-> "image_to_ascii"]

C6_Witness ==
    /\ width = 0
    /\ image # None
    /\ pc = "raised"
    /\ raised.exc = "ValueError"

\* C7: when the fetch of a URL fails, preprocess_image raises nothing and
\* returns None after one call of requests.get, image_to_ascii is not
\* called, no art is printed and no file is written.
C7_FetchFailure ==
    /\ fetches <= 1
    /\ ~(raised.from = "preprocess_image" /\ raised.exc \in RequestExceptions)
    /\ Printed("fetch_error") =>
        /\ fetches = 1
        /\ image = None
        /\ raised = NoRaise
        /\ pc \in {"preprocessed", "done"}
        /\ ascii_art = None
        /\ ~Printed("art")
        /\ saves = 0
        /\ outfile = None

C7_Witness ==
    /\ pc = "done"
    /\ stdout = <<[kind |-> "fetch_error", text |-> "HTTPError"]>>
    /\ fetches = 1

\* C8: in a run in which the conversion produced art, the art is printed
\* before save_output is called, save_output is called once and opens the
\* file at most once, and a failure of os.makedirs or of the write is
\* printed and does not leave save_output as an exception.
C8_SaveNeverLoses ==
    /\ saves <= 1
    /\ writes <= saves
    /\ raised.from # "save_output"
    /\ saves > 0 =>
        /\ ascii_art # None
        /\ \E i \in 1..Len(stdout) :
              /\ stdout[i] = [kind |-> "art", text |-> ascii_art.text]
              /\ \A j \in 1..Len(stdout) :
                    stdout[j].kind \in {"saved", "save_error"} => i < j
    /\ ascii_art # None /\ pc \in {"done", "raised"} =>
        /\ pc = "done"
        /\ saves = 1
        /\ outfile = ascii_art \/ Printed("save_error")

C8_Witness ==
    /\ pc = "done"
    /\ Printed("art")
    /\ Printed("save_error")
    /\ writes = 1
    /\ outfile = None

\* C9 as stated: whatever fails while the image is opened, its
\* transparency removed or it is converted to grayscale, preprocess_image
\* returns None and raises nothing.
C9_ReturnsNone == raised.from # "preprocess_image"

\* C10: a pixel of alpha 0 gets brightness 255 whatever its colour, a
\* pixel of alpha 255 gets the brightness of its own colour, and every
\* brightness lies in 0..255.
C10_WhiteBackground ==
    pc = "normalized" =>
        /\ result.l \in 0..255
        /\ arg.p.a = 0 => result.l = 255
        /\ arg.p.a = 255 =>
              result.l = (arg.p.r * 19595 + arg.p.g * 38470 + arg.p.b * 7471
                          + 32768) \div 65536

C10_Witness ==
    /\ pc = "normalized"
    /\ arg.mode = "RGBA"
    /\ arg.p = [r |-> 0, g |-> 100, b |-> 200, a |-> 0]
    /\ result.l = 255

=============================================================================
